---- MODULE Spec2Model ----
(***************************************************************************)
(* A model of UniversalMCPClient (client.ts): the server registry          *)
(* (clients, transports, serverInfos), the dispatch methods, and the       *)
(* queryWithLLM tool-use loop.  Every async method is a process that is    *)
(* cut at its awaits; between two awaits a method runs atomically, as on   *)
(* the JavaScript event loop.  Backends, the transport layer and the       *)
(* language model are the environment: their answers are nondeterministic. *)
(***************************************************************************)
EXTENDS Integers, Sequences, FiniteSets, TLC

\* ------------------------------------------------------------- bounds
\* Client objects that are ever constructed by connectToServer.
MaxHandles == 2
\* Method calls in flight at the same time.
MaxCalls == 2
\* queryWithLLM calls in flight at the same time.
MaxQueries == 1

\* ------------------------------------------------------------ strings
\* A string is a sequence of characters.
Sep == "_"
A == <<"a">>
AB == <<"a", "_", "b">>
S == <<"s">>
BS == <<"b", "_", "s">>
\* Server identifiers are non-empty names; AB holds the separator.
ServerNames == {A, AB}
\* The value of an omitted optional argument.
Undefined == <<"undefined">>
\* A JavaScript string or undefined used as a condition.
Truthy(x) == x # Undefined /\ x # <<>>

\* `s.indexOf(ch)`: the 0-based index of the first ch, or -1.
IndexOf(s, ch) ==
  IF \E i \in 1..Len(s) : s[i] = ch
  THEN (CHOOSE i \in 1..Len(s) : s[i] = ch /\ \A j \in 1..(i - 1) : s[j] # ch) - 1
  ELSE -1

\* `s.substring(from, to)` with 0-based bounds; a negative bound counts as 0.
Substring(s, from, to) ==
  LET f == IF from < 0 THEN 0 ELSE IF from > Len(s) THEN Len(s) ELSE from
      t == IF to < 0 THEN 0 ELSE IF to > Len(s) THEN Len(s) ELSE to
      lo == IF f <= t THEN f ELSE t
      hi == IF f <= t THEN t ELSE f
  IN  SubSeq(s, lo + 1, hi)

\* ---------------------------------------------------------------- Map
\* A JavaScript Map: the entries [k, v] in insertion order.
MapHas(m, k) == \E i \in 1..Len(m) : m[i].k = k
MapPos(m, k) == CHOOSE i \in 1..Len(m) : m[i].k = k
\* Map.get: the value, or `none` for undefined.
MapGet(m, k, none) == IF MapHas(m, k) THEN m[MapPos(m, k)].v ELSE none
\* Map.set: an existing key keeps its place, a new key is appended.
MapSet_Replaces(m, k, v) == <<[k |-> k, v |-> v]>>
MapSet(m, k, v) ==
  IF MapHas(m, k)
  THEN [m EXCEPT ![MapPos(m, k)] = [k |-> k, v |-> v]]
  ELSE Append(m, [k |-> k, v |-> v])
MapDelete_Clears(m, k) == <<>>
MapDelete(m, k) ==
  IF MapHas(m, k)
  THEN SubSeq(m, 1, MapPos(m, k) - 1) \o SubSeq(m, MapPos(m, k) + 1, Len(m))
  ELSE m
MapKeys(m) == {m[i].k : i \in 1..Len(m)}
MapValues(m) == {m[i].v : i \in 1..Len(m)}

\* ------------------------------------------------------------ backends
\* What the backend server behind each identifier offers.
BackendTools(s) == IF s = A THEN <<S, BS>> ELSE <<S>>
BackendResources(s) == IF s = A THEN <<"res:a">> ELSE <<"res:ab">>
BackendPrompts(s) == IF s = A THEN <<"prompt:a">> ELSE <<>>
Capabilities == {"tools", "resources", "prompts"}

\* Transport descriptors (MCPServerConfig.transport): the type tag and
\* which of the optional stdio / sse blocks are present.
StdioDescriptor == [type |-> "stdio", stdio |-> TRUE, sse |-> FALSE]
SseDescriptor == [type |-> "sse", stdio |-> FALSE, sse |-> TRUE]
InvalidDescriptors ==
  { [type |-> "stdio", stdio |-> FALSE, sse |-> TRUE],
    [type |-> "http", stdio |-> TRUE, sse |-> TRUE] }
\* The configuration file gives each server one well-formed descriptor;
\* a caller may also pass a malformed one.
ServerConfig(name) == IF name = A THEN StdioDescriptor ELSE SseDescriptor

\* connectToServer's transport selection: the transport kind, or "invalid".
SelectTransport(cfg) ==
  IF cfg.type = "stdio" /\ cfg.stdio THEN "stdio"
  ELSE IF cfg.type = "sse" /\ cfg.sse THEN "sse"
  ELSE "invalid"

\* The blocks of a descriptor: stdio's command, sse's url and its optional
\* header map (the set of its entries).
StdioBlock(name) == [command |-> <<"node", name>>]
SseBlock(name) ==
  [url |-> <<"https://", name>>, headers |-> {<<"Authorization", "Bearer token">>}]
\* What the transport constructor is given: StdioClientTransport the
\* command, SSEClientTransport the URL alone.
TransportOptions(name, kind) ==
  IF kind = "sse"
  THEN [command |-> <<>>, url |-> SseBlock(name).url, headers |-> {}]
  ELSE [command |-> StdioBlock(name).command, url |-> <<>>, headers |-> {}]

\* -------------------------------------------------------------- state
VARIABLES
  anthropic,    \* whether the constructor built a language-model client
  clients,      \* Map serverName -> Client (a handle number)
  transports,   \* Map serverName -> transport (the handle's number)
  serverInfos,  \* Map serverName -> ServerInfo
  handles,      \* every Client object constructed so far, by number
  calls,        \* the method calls in flight, by slot
  last,         \* what the last step did: the call, its outcome, its I/O
  main          \* the host program (CLI or API server) around the client

vars == <<anthropic, clients, transports, serverInfos, handles, calls, last, main>>

NoHandle == 0
\* How a step leaves its call: at an await, returned, or with an error raised.
Pending == [kind |-> "pending"]
Returns(v) == [kind |-> "return", value |-> v]
Throws_AsReturn(e) == [kind |-> "return", value |-> e]
Throws(e) == [kind |-> "throw", error |-> e]
NoInfo == [name |-> <<>>, absent |-> TRUE]
Idle == [op |-> "idle"]
CallSlots == 1..MaxCalls
HandleIds == 1..MaxHandles

\* The first free call slot: a new call takes it.
FreeSlot(c) == calls[c] = Idle /\ \A d \in 1..(c - 1) : calls[d] # Idle
\* The next Client object to be constructed.
NextHandle == Len(handles) + 1

\* A lookup that finds the last client ever built for serverName, also
\* after it was removed from this.clients.
LookupClient_Stale(serverName) ==
  LET built == {h \in 1..Len(handles) :
                  handles[h].backend = serverName
                  /\ handles[h].status \in {"open", "closed"}}
  IN IF built = {} THEN NoHandle ELSE CHOOSE h \in built : \A g \in built : g <= h

\* `this.clients.get(serverName)`: the registered client, or none.
LookupClient(serverName) == MapGet(clients, serverName, NoHandle)
\* queryWithLLM without its guard on this.anthropic.
LLMConfigured_Unchecked == TRUE

\* `this.anthropic` as a condition: set by the constructor when it was
\* given an API key.
LLMConfigured == anthropic

\* Handle status: "connecting" (client.connect pending), "open", "closed"
\* (client.close was called), "dropped" (the backend went away), "failed"
\* (client.connect raised).
SetStatus(hs, h, st) == [hs EXCEPT ![h].status = st]

\* The host program: its phase ("library": none, the class is driven by
\* its callers directly; "start", "connecting", "serving", "exited"), its
\* entry point, the configured servers in key order, how many connects it
\* has launched, the connection results, the validation errors it printed,
\* its exit code and the HTTP response it sent last.
NoCode == -1
\* The HTTP response of the API server's last route step, if it sent one.
NoResponse == [route |-> "none", name |-> <<"undefined">>, status |-> 0]
Library ==
  [ phase |-> "library", entry |-> "none", config |-> <<>>, launched |-> 0,
    results |-> <<>>, errors |-> <<>>, code |-> NoCode, http |-> NoResponse ]

Init ==
  /\ anthropic \in BOOLEAN
  /\ clients = <<>>
  /\ transports = <<>>
  /\ serverInfos = <<>>
  /\ handles = <<>>
  /\ calls = [c \in CallSlots |-> Idle]
  /\ last = [op |-> "init"]
  /\ main = Library

\* ----------------------------------------------------- connectToServer
\* One list call of discoverServerCapabilities with its `.catch`: a failed
\* call is replaced by the empty list.
BackendList(cap, backend) ==
  IF cap = "tools" THEN BackendTools(backend)
  ELSE IF cap = "resources" THEN BackendResources(backend)
  ELSE BackendPrompts(backend)

\* An all-or-nothing join: one failed list call empties every list.
CaughtList_AllOrNothing(cap, backend, failed) ==
  IF failed # {} THEN <<>> ELSE BackendList(cap, backend)

CaughtList(cap, backend, failed) ==
  IF cap \in failed THEN <<>> ELSE BackendList(cap, backend)

\* The ServerInfo that discoverServerCapabilities builds from the three
\* settled list calls.
DiscoveredInfo(name, backend, failed) ==
  [ name |-> name,
    absent |-> FALSE,
    tools |-> CaughtList("tools", backend, failed),
    resources |-> CaughtList("resources", backend, failed),
    prompts |-> CaughtList("prompts", backend, failed) ]

\* connectToServer up to `await client.connect(transport)`: the transport is
\* selected from the descriptor; an invalid descriptor throws at once.
ConnectStart(c, name, cfg) ==
  /\ FreeSlot(c)
  /\ UNCHANGED <<anthropic, clients, transports, serverInfos>>
  /\ IF SelectTransport(cfg) = "invalid"
     THEN /\ UNCHANGED <<handles, calls>>
          /\ last' = [op |-> "connect", step |-> "start", call |-> c, name |-> name,
                      outcome |-> Throws("Invalid transport configuration"), sent |-> {}]
     ELSE /\ NextHandle <= MaxHandles
          /\ handles' = Append(handles, [backend |-> name,
                                         kind |-> SelectTransport(cfg),
                                         opened |-> TransportOptions(name, SelectTransport(cfg)),
                                         status |-> "connecting"])
          /\ calls' = [calls EXCEPT ![c] =
                         [op |-> "connect", pc |-> "connecting", name |-> name,
                          client |-> NextHandle]]
          /\ last' = [op |-> "connect", step |-> "start", call |-> c, name |-> name,
                      outcome |-> Pending, sent |-> {}]

\* `await client.connect(transport)` settles.  On success the client and
\* the transport are registered and discovery issues its three list calls
\* on this.clients.get(serverName); on failure the error is rethrown.
ConnectSettles(c, ok) ==
  /\ calls[c].op = "connect" /\ calls[c].pc = "connecting"
  /\ UNCHANGED <<anthropic, serverInfos>>
  /\ LET name == calls[c].name
         h == calls[c].client
     IN IF ok
        THEN /\ handles' = SetStatus(handles, h, "open")
             /\ clients' = MapSet(clients, name, h)
             /\ transports' = MapSet(transports, name, h)
             /\ calls' = [calls EXCEPT ![c].pc = "discovering",
                                       ![c].client = h]
             /\ last' = [op |-> "connect", step |-> "registered", call |-> c,
                         name |-> name, outcome |-> Pending,
                         sent |-> {h}]
        ELSE /\ handles' = SetStatus(handles, h, "failed")
             /\ calls' = [calls EXCEPT ![c] = Idle]
             /\ UNCHANGED <<clients, transports>>
             /\ last' = [op |-> "connect", step |-> "registered", call |-> c,
                         name |-> name, outcome |-> Throws("Connection failed"), sent |-> {}]

\* Promise.allSettled of the three list calls settles: `failed` are the
\* list calls the backend or the channel failed.  The snapshot is stored
\* under serverName, discoverServerCapabilities returns and connectToServer
\* returns with it.
DiscoverSettles(c, failed) ==
  /\ calls[c].op = "connect" /\ calls[c].pc = "discovering"
  /\ handles[calls[c].client].status # "open" => failed = Capabilities
  /\ UNCHANGED <<anthropic, clients, transports, handles>>
  /\ LET name == calls[c].name
         info == DiscoveredInfo(name, handles[calls[c].client].backend, failed)
     IN /\ serverInfos' = MapSet(serverInfos, name, info)
        /\ calls' = [calls EXCEPT ![c] = Idle]
        /\ last' = [op |-> "connect", step |-> "return", call |-> c, name |-> name,
                    outcome |-> Returns("void"), sent |-> {}, failed |-> failed,
                    client |-> calls[c].client]

\* ----------------------------------------------------------- disconnect
\* The live iterators of `for (const [name, client] of this.clients)` in
\* other calls, after the entry at position p was deleted (p = 0: none).
IteratorsAfterDelete(cs, p) ==
  [d \in CallSlots |->
     IF cs[d].op = "disconnectAll" /\ p > 0 /\ cs[d].it >= p
     THEN [cs[d] EXCEPT !.it = cs[d].it - 1]
     ELSE cs[d]]

\* The live iterators after this.clients.clear().
IteratorsAfterClear(cs) ==
  [d \in CallSlots |->
     IF cs[d].op = "disconnectAll" THEN [cs[d] EXCEPT !.it = 0] ELSE cs[d]]

\* One turn of the disconnect-all loop with `it` entries consumed: close
\* the next entry's client and await it, or leave the loop and clear the maps.
DisconnectAllNext(c, it) ==
  /\ UNCHANGED anthropic
  /\ IF it < Len(clients)
     THEN /\ handles' = SetStatus(handles, clients[it + 1].v, "closed")
          /\ calls' = [calls EXCEPT ![c] =
                         [op |-> "disconnectAll", pc |-> "closing", it |-> it + 1,
                          client |-> clients[it + 1].v, name |-> clients[it + 1].k]]
          /\ UNCHANGED <<clients, transports, serverInfos>>
          /\ last' = [op |-> "disconnectAll", step |-> "close", call |-> c,
                      name |-> Undefined, outcome |-> Pending, sent |-> {},
                      closed |-> clients[it + 1].v]
     ELSE /\ clients' = <<>>
          /\ transports' = <<>>
          /\ serverInfos' = <<>>
          /\ calls' = IteratorsAfterClear([calls EXCEPT ![c] = Idle])
          /\ UNCHANGED handles
          /\ last' = [op |-> "disconnectAll", step |-> "return", call |-> c,
                      name |-> Undefined, outcome |-> Returns("void"), sent |-> {},
                      dropped |-> MapValues(clients)]

\* disconnect(serverName?) up to its first await.
DisconnectStart(c, arg) ==
  /\ FreeSlot(c)
  /\ IF Truthy(arg)
     THEN LET client == LookupClient(arg)
          IN /\ UNCHANGED <<anthropic, clients, transports, serverInfos>>
             /\ IF client # NoHandle
                THEN /\ handles' = SetStatus(handles, client, "closed")
                     /\ calls' = [calls EXCEPT ![c] =
                                    [op |-> "disconnect", pc |-> "closing",
                                     name |-> arg, client |-> client]]
                     /\ last' = [op |-> "disconnect", step |-> "start", call |-> c,
                                 name |-> arg, outcome |-> Pending, sent |-> {},
                                 closed |-> client]
                ELSE /\ UNCHANGED <<handles, calls>>
                     /\ last' = [op |-> "disconnect", step |-> "start", call |-> c,
                                 name |-> arg, outcome |-> Returns("void"), sent |-> {}]
     ELSE DisconnectAllNext(c, 0)

\* `await client.close()` of disconnect(serverName) settles: the three
\* entries of serverName are deleted, or the error of close propagates.
DisconnectSettles(c, raised) ==
  /\ calls[c].op = "disconnect" /\ calls[c].pc = "closing"
  /\ UNCHANGED <<anthropic, handles>>
  /\ LET name == calls[c].name
     IN IF raised
        THEN /\ UNCHANGED <<clients, transports, serverInfos>>
             /\ calls' = [calls EXCEPT ![c] = Idle]
             /\ last' = [op |-> "disconnect", step |-> "settle", call |-> c,
                         name |-> name, outcome |-> Throws("Close failed"), sent |-> {},
                         dropped |-> NoHandle, closed |-> calls[c].client]
        ELSE /\ clients' = MapDelete(clients, name)
             /\ transports' = MapDelete(transports, name)
             /\ serverInfos' = MapDelete(serverInfos, name)
             /\ calls' = IteratorsAfterDelete(
                           [calls EXCEPT ![c] = Idle],
                           IF MapHas(clients, name) THEN MapPos(clients, name) ELSE 0)
             /\ last' = [op |-> "disconnect", step |-> "settle", call |-> c,
                         name |-> name, outcome |-> Returns("void"), sent |-> {},
                         dropped |-> MapGet(clients, name, NoHandle),
                         closed |-> calls[c].client]

\* `await client.close()` inside the disconnect-all loop settles.
DisconnectAllSettles(c, raised) ==
  /\ calls[c].op = "disconnectAll" /\ calls[c].pc = "closing"
  /\ IF raised
     THEN /\ UNCHANGED <<anthropic, clients, transports, serverInfos, handles>>
          /\ calls' = [calls EXCEPT ![c] = Idle]
          /\ last' = [op |-> "disconnectAll", step |-> "return", call |-> c,
                      name |-> Undefined, outcome |-> Throws("Close failed"), sent |-> {},
                      dropped |-> {}]
     ELSE DisconnectAllNext(c, calls[c].it)

\* ------------------------------------------------------------- dispatch
DispatchOps == {"callTool", "readResource", "getPrompt", "ping"}
\* Argument maps a caller passes; NoArgs is an omitted argument map.
NoArgs == [undefined |-> TRUE]
ArgMaps == { [productName |-> "Revit"], [productName |-> "Dynamo", limit |-> 5] }
\* The caller's arguments of each dispatched method, after serverName.
DispatchParams(op) ==
  IF op = "callTool" THEN [name : {S, BS}, arguments : ArgMaps]
  ELSE IF op = "readResource" THEN [uri : {"res:a"}]
  ELSE IF op = "getPrompt" THEN [name : {"prompt:a"}, arguments : {NoArgs} \cup ArgMaps]
  ELSE { [none |-> TRUE] }

Request_DropsField(op, params) ==
  IF op = "callTool"
  THEN [method |-> "tools/call", name |-> params.name,
        arguments |-> [productName |-> params.arguments.productName]]
  ELSE [method |-> "ping"]
\* The request each method hands to the protocol session.
Request(op, params) ==
  IF op = "callTool"
  THEN [method |-> "tools/call", name |-> params.name, arguments |-> params.arguments]
  ELSE IF op = "readResource" THEN [method |-> "resources/read", uri |-> params.uri]
  ELSE IF op = "getPrompt"
  THEN [method |-> "prompts/get", name |-> params.name, arguments |-> params.arguments]
  ELSE [method |-> "ping"]

\* What a backend can answer to a request, and how a request can fail.
Responses(method) ==
  IF method = "tools/call"
  THEN { [content |-> "tool output", isError |-> FALSE],
         [content |-> "tool output", isError |-> TRUE],
         [content |-> "tool reported failure", isError |-> TRUE] }
  ELSE IF method = "resources/read" THEN { [contents |-> "resource text"] }
  ELSE IF method = "prompts/get" THEN { [messages |-> "prompt text"] }
  ELSE { [pong |-> TRUE] }
Faults == {"Connection closed", "MCP error"}

\* The outcome of a method addressed to a serverName with no client.
NotConnectedOutcome(op) ==
  IF op = "ping"
  THEN Returns(FALSE)
  ELSE Throws("Server not connected")

\* What each method returns from the session's response.
DispatchResult(op, resp) ==
  IF op = "callTool" THEN Returns(resp.content)
  ELSE IF op = "readResource" THEN Returns(resp.contents)
  ELSE IF op = "getPrompt" THEN Returns(resp)
  ELSE Returns(TRUE)

DispatchFailure_Rethrown(op, fault) == Throws(fault)
DispatchFailure_Swallowed(op, fault) == Returns(FALSE)
DispatchFailure_Empty(op, fault) == Returns("")
\* What each method does with an error raised by the session.
DispatchFailure(op, fault) ==
  IF op = "ping"
  THEN Returns(FALSE)
  ELSE Throws(fault)

\* callTool / readResource / getPrompt / ping up to the await: the client
\* is looked up in this.clients and the request is sent on it.
DispatchStart(c, op, name, params) ==
  /\ FreeSlot(c)
  /\ UNCHANGED <<anthropic, clients, transports, serverInfos, handles>>
  /\ LET client == LookupClient(name)
     IN IF client = NoHandle
        THEN /\ UNCHANGED calls
             /\ last' = [op |-> op, step |-> "start", call |-> c, name |-> name,
                         outcome |-> NotConnectedOutcome(op), sent |-> {}]
        ELSE /\ calls' = [calls EXCEPT ![c] =
                            [op |-> op, pc |-> "awaiting", name |-> name,
                             client |-> client, request |-> Request(op, params)]]
             /\ last' = [op |-> op, step |-> "start", call |-> c, name |-> name,
                         outcome |-> Pending, sent |-> {client},
                         params |-> params, request |-> Request(op, params)]

\* The awaited session call settles with a response or with an error.
DispatchSettles(c, ok, resp, fault) ==
  /\ calls[c].op \in DispatchOps /\ calls[c].pc = "awaiting"
  /\ ok => handles[calls[c].client].status = "open"
  /\ ~ok /\ handles[calls[c].client].status # "open" => fault = "Connection closed"
  /\ UNCHANGED <<anthropic, clients, transports, serverInfos, handles>>
  /\ calls' = [calls EXCEPT ![c] = Idle]
  /\ last' = [op |-> calls[c].op, step |-> "settle", call |-> c,
              name |-> calls[c].name,
              outcome |-> IF ok THEN DispatchResult(calls[c].op, resp)
                          ELSE DispatchFailure(calls[c].op, fault),
              sent |-> {}, client |-> calls[c].client,
              response |-> IF ok THEN resp ELSE [fault |-> fault]]

\* ---------------------------------------------------------- environment
\* A backend connection drops (the process dies, the stream ends): no
\* handler is installed on the client, nothing in the registry observes it.
BackendDrops(h) ==
  /\ h \in 1..Len(handles)
  /\ handles[h].status = "open"
  /\ handles' = SetStatus(handles, h, "dropped")
  /\ last' = [op |-> "drop", handle |-> h, name |-> handles[h].backend]
  /\ UNCHANGED <<anthropic, clients, transports, serverInfos, calls>>

\* ------------------------------------------------------------ accessors
Accessors == {"getServerInfo", "isConnected"}
\* getServerInfo and isConnected: synchronous reads of the maps.
ReadAccessor(op, name) ==
  /\ UNCHANGED <<anthropic, clients, transports, serverInfos, handles, calls>>
  /\ last' = [op |-> op, name |-> name,
              outcome |-> IF op = "getServerInfo"
                          THEN Returns(MapGet(serverInfos, name, NoInfo))
                          ELSE Returns(MapHas(clients, name))]

\* --------------------------------------------------------- queryWithLLM
\* `${serverName}_${tool.name}`.
QualifiedName(serverName, toolName) == serverName \o <<Sep>> \o toolName

\* The tool definitions pushed for one ServerInfo.  A tool without a
\* description gets `Tool ${tool.name} from ${serverName}`.
ToolEntries(info) ==
  [ i \in 1..Len(info.tools) |->
      [ name |-> QualifiedName(info.name, info.tools[i]),
        description |-> [tool |-> info.tools[i], from |-> info.name] ] ]

\* The collect loop over this.serverInfos, in Map order, from entry i on.
RECURSIVE CollectFrom(_, _, _)
CollectFrom(infos, preferredServer, i) ==
  IF i > Len(infos) THEN <<>>
  ELSE IF Truthy(preferredServer) /\ infos[i].k # preferredServer
       THEN CollectFrom(infos, preferredServer, i + 1)
       ELSE ToolEntries(infos[i].v) \o CollectFrom(infos, preferredServer, i + 1)

CollectTools(infos, preferredServer) == CollectFrom(infos, preferredServer, 1)

\* "Parse server_tool format": split at the first separator.
SplitServer(qname) == Substring(qname, 0, IndexOf(qname, Sep))
SplitTool(qname) == Substring(qname, IndexOf(qname, Sep) + 1, Len(qname))

\* Pieces of the result string.  Text is kept as tokens; "\n" and
\* whitespace-only text are whitespace.
Newline == [t |-> "nl"]
TextPiece(text) == [t |-> "text", v |-> text]
ExecutedLine(qname) == <<Newline, [t |-> "executed", name |-> qname], Newline>>
FailedLine_Silent(qname, error) == <<Newline>>
FailedLine(qname, error) ==
  <<Newline, [t |-> "failed", name |-> qname, error |-> error], Newline>>
IsWhitespace(piece) == piece.t = "nl" \/ (piece.t = "text" /\ piece.v = " ")

\* String.prototype.trim on a sequence of pieces.
RECURSIVE TrimLeft(_)
TrimLeft(r) ==
  IF r = <<>> THEN r
  ELSE IF IsWhitespace(Head(r)) THEN TrimLeft(Tail(r)) ELSE r
RECURSIVE TrimRight(_)
TrimRight(r) ==
  IF r = <<>> THEN r
  ELSE IF IsWhitespace(r[Len(r)]) THEN TrimRight(SubSeq(r, 1, Len(r) - 1)) ELSE r
Trim(r) == TrimRight(TrimLeft(r))

\* JSON.stringify(toolResult, null, 2).
Stringify(v) == [json |-> v]

\* Conversation turns.  A user turn with string content is one text block.
\* An assistant turn pushed to followUpMessages holds the assistantContent
\* array itself, not a copy: `shared` marks it, and the turn's content is
\* whatever assistantContent holds when the messages are sent.
UserTurn_Fixed(query) ==
  [ role |-> "user", shared |-> FALSE,
    content |-> <<[type |-> "text", text |-> "what is the weather"]>> ]
UserTurn(query) ==
  [role |-> "user", shared |-> FALSE, content |-> <<[type |-> "text", text |-> query]>>]
AssistantTurn_AsUser == [role |-> "user", shared |-> TRUE, content |-> <<>>]
AssistantTurn == [role |-> "assistant", shared |-> TRUE, content |-> <<>>]
ToolResultTurn_NoId(id, toolResult) ==
  [ role |-> "user", shared |-> FALSE,
    content |-> <<[type |-> "tool_result", tool_use_id |-> <<"toolu", 0, 0>>,
                   content |-> Stringify(toolResult)]>> ]
ToolResultTurn(id, toolResult) ==
  [ role |-> "user", shared |-> FALSE,
    content |-> <<[type |-> "tool_result", tool_use_id |-> id,
                   content |-> Stringify(toolResult)]>> ]
\* The messages as serialised into a request.
Serialise(messages, assistantContent) ==
  [ i \in 1..Len(messages) |->
      [ role |-> messages[i].role,
        content |-> IF messages[i].shared THEN assistantContent
                    ELSE messages[i].content ] ]

\* anthropic.messages.create({model, max_tokens, messages, tools}).
ModelRequest(messages, tools) == [messages |-> messages, tools |-> tools]

\* A follow-up response whose text is not read.
FollowUpText_Dropped(content) == <<>>
\* The text of the text blocks of a follow-up response, each with "\n".
RECURSIVE FollowUpText(_)
FollowUpText(content) ==
  IF content = <<>> THEN <<>>
  ELSE (IF Head(content).type = "text"
        THEN <<TextPiece(Head(content).text), Newline>> ELSE <<>>)
       \o FollowUpText(Tail(content))

\* The text segments of the n-th model response of a query, in the order
\* the model emitted them.
Emitted(content, n) ==
  [ k \in 1..Len(SelectSeq(content, LAMBDA b : b.type = "text")) |->
      [req |-> n, text |-> SelectSeq(content, LAMBDA b : b.type = "text")[k].text] ]

\* The ids of the tool_use blocks of a response.
ToolUseIds(content) ==
  {content[i].id : i \in {j \in 1..Len(content) : content[j].type = "tool_use"}}

\* A loop that starts over at the first tool_use block of the response
\* each time it is resumed.
RunLoop_StartsOver(q) ==
  LET uses == {j \in 1..Len(q.response) : q.response[j].type = "tool_use"}
  IN IF uses = {} \/ q.asks > Len(q.response) + 2
     THEN [q EXCEPT !.pc = "returned"]
     ELSE LET j == CHOOSE j \in uses : \A m \in uses : j <= m
              block == q.response[j]
          IN [q EXCEPT !.i = j,
                       !.assistantContent = Append(@, block),
                       !.pc = "awaitTool",
                       !.name = SplitServer(block.name),
                       !.tool = SplitTool(block.name),
                       !.client = LookupClient(SplitServer(block.name)),
                       !.dispatched = @ \cup {block.id}]
\* The `for (const content of response.content)` loop from block q.i on,
\* up to its next await or to `return result.trim()`: text blocks are
\* appended; a tool_use block is pushed, split and handed to callTool,
\* which looks the client up and sends the request.
RECURSIVE RunLoop(_)
RunLoop(q) ==
  IF q.i > Len(q.response)
  THEN [q EXCEPT !.pc = "returned"]
  ELSE LET block == q.response[q.i]
       IN IF block.type = "text"
          THEN RunLoop([q EXCEPT !.result = @ \o <<TextPiece(block.text), Newline>>,
                                 !.assistantContent = Append(@, block),
                                 !.i = @ + 1])
          ELSE [q EXCEPT !.assistantContent = Append(@, block),
                         !.pc = "awaitTool",
                         !.name = SplitServer(block.name),
                         !.tool = SplitTool(block.name),
                         !.client = LookupClient(SplitServer(block.name)),
                         !.dispatched = @ \cup {block.id}]

\* The step record and the call slot after the loop ran on from q.
QueryResume(c, q, step) ==
  LET r == RunLoop(q)
  IN IF r.pc = "returned"
     THEN /\ calls' = [calls EXCEPT ![c] = Idle]
          /\ last' = [op |-> "query", step |-> step, call |-> c, name |-> q.preferred,
                      outcome |-> Returns(Trim(r.result)),
                      sent |-> {}, asked |-> <<>>,
                      requested |-> r.requested, dispatched |-> r.dispatched,
                      asks |-> r.asks, failures |-> r.failures,
                      emitted |-> r.emitted]
     ELSE /\ calls' = [calls EXCEPT ![c] = r]
          /\ last' = [op |-> "query", step |-> step, call |-> c, name |-> q.preferred,
                      outcome |-> Pending,
                      sent |-> IF r.client = NoHandle THEN {} ELSE {r.client},
                      asked |-> <<>>, server |-> r.name, tool |-> r.tool,
                      request |-> IF r.client = NoHandle THEN [method |-> "none"]
                                  ELSE Request("callTool",
                                         [name |-> r.tool,
                                          arguments |-> r.response[r.i].input])]

Queries == {"what is the weather"}
Texts == {"hello"}
ApiError == "API error"

\* queryWithLLM up to the first `await this.anthropic.messages.create`.
QueryStart(c, query, preferredServer) ==
  /\ FreeSlot(c)
  /\ UNCHANGED <<anthropic, clients, transports, serverInfos, handles>>
  /\ IF ~LLMConfigured
     THEN /\ UNCHANGED calls
          /\ last' = [op |-> "query", step |-> "start", call |-> c,
                      name |-> preferredServer,
                      outcome |-> Throws("Anthropic API key not configured"),
                      sent |-> {}, asked |-> <<>>]
     ELSE LET allTools == CollectTools(serverInfos, preferredServer)
              request == ModelRequest(Serialise(<<UserTurn(query)>>, <<>>), allTools)
          IN /\ calls' = [calls EXCEPT ![c] =
                            [ op |-> "query", pc |-> "asking", query |-> query,
                              preferred |-> preferredServer, allTools |-> allTools,
                              response |-> <<>>, i |-> 0, result |-> <<>>,
                              assistantContent |-> <<>>, followUpMessages |-> <<>>,
                              name |-> <<>>, tool |-> <<>>, client |-> NoHandle,
                              asks |-> 1, requested |-> {}, dispatched |-> {},
                              failures |-> {}, emitted |-> <<>> ]]
             /\ last' = [op |-> "query", step |-> "start", call |-> c,
                         name |-> preferredServer, outcome |-> Pending,
                         sent |-> {}, asked |-> <<request>>]

\* The first model request settles: the response is processed, or the
\* error is logged and rethrown.
QueryFirstResponds(c, ok, content) ==
  /\ calls[c].op = "query" /\ calls[c].pc = "asking"
  /\ UNCHANGED <<anthropic, clients, transports, serverInfos, handles>>
  /\ IF ok
     THEN QueryResume(c, [calls[c] EXCEPT
                            !.response = content, !.i = 1, !.result = <<>>,
                            !.followUpMessages = <<UserTurn(calls[c].query)>>,
                            !.assistantContent = <<>>,
                            !.requested = ToolUseIds(content),
                            !.emitted = Emitted(content, 1)],
                      "response")
     ELSE /\ calls' = [calls EXCEPT ![c] = Idle]
          /\ last' = [op |-> "query", step |-> "response", call |-> c,
                      name |-> calls[c].preferred,
                      outcome |-> Throws(ApiError),
                      sent |-> {}, asked |-> <<>>]

\* `await this.callTool(...)` settles.  On success the executed line, the
\* assistant turn and the tool_result turn are added and the follow-up
\* request is sent; on failure the inner catch adds the failed line and
\* the loop goes on with the next block.
QueryToolSettles(c, ok, resp, fault) ==
  /\ calls[c].op = "query" /\ calls[c].pc = "awaitTool"
  /\ UNCHANGED <<anthropic, clients, transports, serverInfos, handles>>
  /\ LET q == calls[c]
         block == q.response[q.i]
     IN /\ ok => q.client # NoHandle /\ handles[q.client].status = "open"
        /\ ~ok /\ q.client = NoHandle => fault = "Server not connected"
        /\ ~ok /\ q.client # NoHandle => fault \in Faults
        /\ ~ok /\ q.client # NoHandle /\ handles[q.client].status # "open"
             => fault = "Connection closed"
        /\ IF ok
           THEN LET toolResult == DispatchResult("callTool", resp).value
                    messages == q.followUpMessages
                                  \o <<AssistantTurn, ToolResultTurn(block.id, toolResult)>>
                    request == ModelRequest(Serialise(messages, q.assistantContent),
                                            q.allTools)
                IN /\ calls' = [calls EXCEPT ![c] =
                                  [q EXCEPT !.pc = "askingFollowUp",
                                            !.result = @ \o ExecutedLine(block.name),
                                            !.followUpMessages = messages,
                                            !.asks = @ + 1]]
                   /\ last' = [op |-> "query", step |-> "tool", call |-> c,
                               name |-> q.preferred, outcome |-> Pending,
                               sent |-> {}, asked |-> <<request>>,
                               response |-> resp, client |-> q.client]
           ELSE QueryResume(c, [q EXCEPT !.result = @ \o FailedLine(block.name, fault),
                                         !.failures = @ \cup {[name |-> block.name,
                                                               error |-> fault]},
                                         !.i = @ + 1, !.pc = "loop"],
                            "tool")

\* The follow-up model request settles: its text blocks are appended (its
\* other blocks are not looked at); an error lands in the inner catch.
QueryFollowUpResponds(c, ok, content) ==
  /\ calls[c].op = "query" /\ calls[c].pc = "askingFollowUp"
  /\ UNCHANGED <<anthropic, clients, transports, serverInfos, handles>>
  /\ LET q == calls[c]
         block == q.response[q.i]
     IN IF ok
        THEN QueryResume(c, [q EXCEPT !.result = @ \o FollowUpText(content),
                                      !.requested = @ \cup ToolUseIds(content),
                                      !.emitted = @ \o Emitted(content, q.asks),
                                      !.i = @ + 1, !.pc = "loop"],
                         "followUp")
        ELSE QueryResume(c, [q EXCEPT !.result = @ \o FailedLine(block.name, ApiError),
                                      !.i = @ + 1, !.pc = "loop"],
                         "followUp")

\* What the language model can answer to its n-th request of a query: up
\* to MaxBlocks blocks, each a text or a tool_use naming an advertised tool;
\* the correlation ids are unique per request and block.
MaxBlocks == 2
ToolUseId(n, i) == <<"toolu", n, i>>
Blocks(allTools, n, i) ==
  { [type |-> "text", text |-> t, id |-> <<>>, name |-> <<>>, input |-> NoArgs] : t \in Texts }
  \cup { [type |-> "tool_use", text |-> "", id |-> ToolUseId(n, i),
          name |-> allTools[k].name, input |-> [productName |-> "Revit"]] :
         k \in 1..Len(allTools) }
RECURSIVE ResponsesOfLen(_, _, _)
ResponsesOfLen(allTools, n, len) ==
  IF len = 0 THEN {<<>>}
  ELSE { Append(r, b) : r \in ResponsesOfLen(allTools, n, len - 1),
                        b \in Blocks(allTools, n, len) }
ModelResponses(allTools, n) ==
  UNION { ResponsesOfLen(allTools, n, len) : len \in 0..MaxBlocks }

\* Model responses whose text segments can be told apart: the i-th block
\* of the n-th response, when it is text, reads "n.i"; the very first
\* segment of a query may instead be whitespace alone.
SegmentText(n, i) == ToString(n) \o "." \o ToString(i)
Tagged(content, n, blank) ==
  [ i \in 1..Len(content) |->
      IF content[i].type # "text" THEN content[i]
      ELSE [content[i] EXCEPT !.text = IF blank /\ n = 1 /\ i = 1 THEN " "
                                       ELSE SegmentText(n, i)] ]
TaggedResponses(allTools, n) ==
  { Tagged(content, n, blank) :
      content \in ModelResponses(allTools, n), blank \in BOOLEAN }

\* ------------------------------------------------------------- shutdown
Signals == {"SIGINT", "SIGTERM"}
\* The CLI's signal handlers: log and process.exit(0).
CliSignal(sig) ==
  /\ main.phase # "exited"
  /\ main' = [main EXCEPT !.phase = "exited", !.entry = "cli", !.code = 0]
  /\ last' = [op |-> "exit", entry |-> "cli", signal |-> sig, name |-> Undefined]
  /\ UNCHANGED <<anthropic, clients, transports, serverInfos, handles, calls>>

\* The API server's `shutdown` handler up to `await client.disconnect()`.
ApiSignal(c) == DisconnectStart(c, Undefined)

\* The API server's `shutdown` after disconnect() is over: process.exit(0)
\* when it returned; when it raised, the rejection of `shutdown` is
\* unhandled and ends the process.
ApiExit ==
  /\ main.phase # "exited"
  /\ last.op = "disconnectAll" /\ last.outcome.kind # "pending"
  /\ main' = [main EXCEPT !.phase = "exited", !.entry = "api",
                          !.code = IF last.outcome.kind = "return" THEN 0 ELSE 1]
  /\ last' = [op |-> "exit", entry |-> "api", signal |-> "SIGINT", name |-> Undefined]
  /\ UNCHANGED <<anthropic, clients, transports, serverInfos, handles, calls>>

\* -------------------------------------------------------------- startup
\* config.servers: the configured servers in key order, each with the
\* descriptor of the configuration file or a malformed one.
RECURSIVE ConfigsOfLen(_)
ConfigsOfLen(n) ==
  IF n = 0 THEN {<<>>}
  ELSE { Append(cfg, [k |-> name, v |-> d]) :
           cfg \in ConfigsOfLen(n - 1), name \in ServerNames,
           d \in {StdioDescriptor, SseDescriptor} \cup InvalidDescriptors }
Configs ==
  { cfg \in UNION { ConfigsOfLen(n) : n \in 0..Cardinality(ServerNames) } :
      /\ \A i, j \in 1..Len(cfg) : i # j => cfg[i].k # cfg[j].k
      /\ \A i \in 1..Len(cfg) : cfg[i].v \in {ServerConfig(cfg[i].k)} \cup InvalidDescriptors }

\* validateConfig's checks of one server: the error strings it pushes.
ServerErrors(name, cfg) ==
  (IF cfg.type = "stdio" /\ ~cfg.stdio
   THEN <<[server |-> name, missing |-> "stdio"]>> ELSE <<>>)
  \o (IF cfg.type = "sse" /\ ~cfg.sse
      THEN <<[server |-> name, missing |-> "sse"]>> ELSE <<>>)

RECURSIVE EntryErrors(_, _)
EntryErrors(config, i) ==
  IF i > Len(config) THEN <<>>
  ELSE ServerErrors(config[i].k, config[i].v) \o EntryErrors(config, i + 1)

\* validateConfig: the errors, `valid` being that there are none.
ValidateConfig(config) ==
  (IF Len(config) = 0 THEN <<[server |-> Undefined, missing |-> "servers"]>> ELSE <<>>)
  \o EntryErrors(config, 1)

\* The program starts with a configuration loaded.
InitMain ==
  /\ anthropic \in BOOLEAN
  /\ clients = <<>>
  /\ transports = <<>>
  /\ serverInfos = <<>>
  /\ handles = <<>>
  /\ calls = [c \in CallSlots |-> Idle]
  /\ last = [op |-> "init"]
  /\ \E entry \in {"cli", "api"}, config \in Configs :
       main = [Library EXCEPT !.phase = "start", !.entry = entry, !.config = config]

\* The validation gate: with errors they are printed and the process
\* exits with status 1.
MainValidate ==
  /\ main.phase = "start"
  /\ LET errors == ValidateConfig(main.config)
     IN /\ main' = IF errors # <<>>
                   THEN [main EXCEPT !.phase = "exited", !.errors = errors, !.code = 1]
                   ELSE [main EXCEPT !.phase = "connecting"]
        /\ last' = [op |-> "validate", name |-> Undefined, errors |-> errors]
  /\ UNCHANGED <<anthropic, clients, transports, serverInfos, handles, calls>>

\* What a connection promise resolves to once the step `l` of its
\* connectToServer call has returned or raised: { serverName, success, error }.
RecordResult(m, l) ==
  IF l.outcome.kind = "pending" THEN m
  ELSE [m EXCEPT !.results =
          Append(@, [serverName |-> l.name,
                     success |-> l.outcome.kind = "return",
                     error |-> IF l.outcome.kind = "throw" THEN l.outcome.error ELSE ""])]

\* serverNames.map(async ...): the callbacks run one after the other, each
\* up to the first await of its connectToServer call.
MainLaunch(c) ==
  /\ main.phase = "connecting" /\ main.launched < Len(main.config)
  /\ LET e == main.config[main.launched + 1]
     IN ConnectStart(c, e.k, e.v)
  /\ main' = RecordResult([main EXCEPT !.launched = @ + 1], last')

\* A connect of the startup settles, after every callback was started.
MainConnectSettles(c, ok) ==
  /\ main.phase = "connecting" /\ main.launched = Len(main.config)
  /\ ConnectSettles(c, ok)
  /\ main' = RecordResult(main, last')

MainDiscoverSettles(c, failed) ==
  /\ main.phase = "connecting" /\ main.launched = Len(main.config)
  /\ DiscoverSettles(c, failed)
  /\ main' = RecordResult(main, last')

\* `await Promise.all(connectionPromises)` resolves.  The CLI exits with
\* status 1 when no connection succeeded; the API server goes on.
MainConnected ==
  /\ main.phase = "connecting" /\ main.launched = Len(main.config)
  /\ Len(main.results) = Len(main.config)
  /\ LET successful == {i \in 1..Len(main.results) : main.results[i].success}
     IN /\ main' = IF main.entry = "cli" /\ successful = {}
                   THEN [main EXCEPT !.phase = "exited", !.code = 1]
                   ELSE [main EXCEPT !.phase = "serving"]
        /\ last' = [op |-> "startup", name |-> Undefined,
                    connected |-> {main.results[i].serverName : i \in successful}]
  /\ UNCHANGED <<anthropic, clients, transports, serverInfos, handles, calls>>

\* ---------------------------------------------------------- HTTP routes
\* The routes of the API server that address one server, named by the
\* client method they call ("tools" and "resources" read the snapshot).
InfoRoutes == {"getServerInfo", "tools", "resources"}
ServerRoutes == InfoRoutes \cup {"callTool", "readResource", "ping"}
\* `res.status(status).json(...)`; res.json alone answers 200.
Respond(route, name, status) == [route |-> route, name |-> name, status |-> status]

\* The try/catch of an async route around its awaited client call, once
\* the step `l` of that call is taken: 200 with the result, 500 with the
\* error's message, nothing yet while the call is pending.
RouteOutcome(route, name, l) ==
  IF l.outcome.kind = "pending" THEN NoResponse
  ELSE Respond(route, name, IF l.outcome.kind = "throw" THEN 500 ELSE 200)

\* The handler of an async route resumes with the step its call just took.
Answer(route, name) == main' = [main EXCEPT !.http = RouteOutcome(route, name, last')]

\* GET /api/servers/:serverName, .../tools, .../resources.
RouteInfo(route, name) ==
  /\ main.phase = "serving"
  /\ ReadAccessor("getServerInfo", name)
  /\ main' = [main EXCEPT !.http =
                Respond(route, name, IF last'.outcome.value.absent THEN 404 ELSE 200)]

\* POST /api/servers/:serverName/tools/:toolName and
\* GET /api/servers/:serverName/resources/*, up to the await.
RouteDispatch(c, op, name, params) ==
  /\ main.phase = "serving"
  /\ IF ~MapHas(clients, name)
     THEN /\ ReadAccessor("isConnected", name)
          /\ main' = [main EXCEPT !.http = Respond(op, name, 404)]
     ELSE /\ DispatchStart(c, op, name, params)
          /\ Answer(op, name)

\* POST /api/servers/:serverName/ping, up to the await.
RoutePing(c, name) ==
  /\ main.phase = "serving"
  /\ DispatchStart(c, "ping", name, [none |-> TRUE])
  /\ Answer("ping", name)

\* The awaited callTool / readResource / ping of a route settles.
RouteSettles(c, ok, resp, fault) ==
  /\ DispatchSettles(c, ok, resp, fault)
  /\ Answer(calls[c].op, calls[c].name)

\* A `query` field that is absent from the body, or empty: `!query` holds.
MissingQuery == ""
\* POST /api/query up to the await: `query` missing from the body is
\* answered 400 without a call.
RouteQuery(c, query, server) ==
  /\ main.phase = "serving"
  /\ IF query = MissingQuery
     THEN /\ main' = [main EXCEPT !.http = Respond("query", server, 400)]
          /\ last' = [op |-> "route", name |-> server, outcome |-> Returns("void")]
          /\ UNCHANGED <<anthropic, clients, transports, serverInfos, handles, calls>>
     ELSE /\ QueryStart(c, query, server)
          /\ Answer("query", server)

\* ------------------------------------------------------- specifications
\* Each step relation takes the bounds of its environment: `failSets` are
\* the sets of list calls that may fail in one discovery, `malformed` the
\* malformed descriptors callers pass.
ConnectStep(failSets, malformed) ==
  \/ \E c \in CallSlots, name \in ServerNames :
       \E cfg \in {ServerConfig(name)} \cup malformed :
            ConnectStart(c, name, cfg) /\ UNCHANGED main
  \/ \E c \in CallSlots, ok \in BOOLEAN : ConnectSettles(c, ok) /\ UNCHANGED main
  \/ \E c \in CallSlots, failed \in failSets :
       DiscoverSettles(c, failed) /\ UNCHANGED main

DisconnectStep ==
  \/ \E c \in CallSlots, arg \in ServerNames \cup {Undefined} :
       DisconnectStart(c, arg) /\ UNCHANGED main
  \/ \E c \in CallSlots, raised \in BOOLEAN :
       DisconnectSettles(c, raised) /\ UNCHANGED main
  \/ \E c \in CallSlots, raised \in BOOLEAN :
       DisconnectAllSettles(c, raised) /\ UNCHANGED main

DispatchStep ==
  \/ \E c \in CallSlots, op \in DispatchOps, name \in ServerNames :
       \E params \in DispatchParams(op) :
            DispatchStart(c, op, name, params) /\ UNCHANGED main
  \/ \E c \in CallSlots :
       /\ calls[c].op \in DispatchOps
       /\ \/ \E resp \in Responses(calls[c].request.method) :
               DispatchSettles(c, TRUE, resp, "") /\ UNCHANGED main
          \/ \E fault \in Faults :
               DispatchSettles(c, FALSE, [none |-> TRUE], fault) /\ UNCHANGED main

QueryStep ==
  \/ \E c \in CallSlots, query \in Queries, preferred \in ServerNames \cup {Undefined} :
       /\ Cardinality({d \in CallSlots : calls[d].op = "query"}) < MaxQueries
       /\ QueryStart(c, query, preferred) /\ UNCHANGED main
  \/ \E c \in CallSlots :
       /\ calls[c].op = "query" /\ calls[c].pc = "asking"
       /\ \/ \E content \in ModelResponses(calls[c].allTools, 1) :
               QueryFirstResponds(c, TRUE, content) /\ UNCHANGED main
          \/ QueryFirstResponds(c, FALSE, <<>>) /\ UNCHANGED main
  \/ \E c \in CallSlots :
       /\ calls[c].op = "query" /\ calls[c].pc = "awaitTool"
       /\ \/ \E resp \in Responses("tools/call") :
            QueryToolSettles(c, TRUE, resp, "") /\ UNCHANGED main
          \/ \E fault \in Faults \cup {"Server not connected"} :
               QueryToolSettles(c, FALSE, [none |-> TRUE], fault) /\ UNCHANGED main
  \/ \E c \in CallSlots :
       /\ calls[c].op = "query" /\ calls[c].pc = "askingFollowUp"
       /\ \/ \E content \in ModelResponses(calls[c].allTools, calls[c].asks) :
               QueryFollowUpResponds(c, TRUE, content) /\ UNCHANGED main
          \/ QueryFollowUpResponds(c, FALSE, <<>>) /\ UNCHANGED main

\* The registry: connects and disconnects, interleaved.
Next == ConnectStep(SUBSET Capabilities, InvalidDescriptors) \/ DisconnectStep
Spec == Init /\ [][Next]_vars

\* Connects alone.
NextConnect == ConnectStep(SUBSET Capabilities, InvalidDescriptors)
SpecConnect == Init /\ [][NextConnect]_vars

\* The registry and the dispatched methods.
NextDispatch == ConnectStep({{}}, {}) \/ DisconnectStep \/ DispatchStep
SpecDispatch == Init /\ [][NextDispatch]_vars

\* Connects and queries.
NextQuery == ConnectStep({{}}, {}) \/ QueryStep
SpecQuery == Init /\ [][NextQuery]_vars

\* Dispatch, queries and accessors on a registry whose backends may drop,
\* from a caller that awaits each call before it makes the next.
OneCallAtATime == Cardinality({c \in CallSlots : calls[c].op # "idle"}) <= 1
NextReaders ==
  \/ ConnectStep({{}}, {}) /\ OneCallAtATime'
  \/ DispatchStep /\ OneCallAtATime'
  \/ QueryStep /\ OneCallAtATime'
  \/ \E h \in HandleIds : BackendDrops(h) /\ UNCHANGED main
  \/ \E op \in Accessors, name \in ServerNames :
       ReadAccessor(op, name) /\ UNCHANGED main
SpecReaders == Init /\ [][NextReaders]_vars

\* Queries whose model responses hold text segments that can be told
\* apart, on the servers connected before; every tool call succeeds or
\* raises.
NextAnswer ==
  \/ ConnectStep({{}}, {}) /\ OneCallAtATime'
  \/ \E c \in CallSlots, query \in Queries :
       QueryStart(c, query, Undefined) /\ OneCallAtATime' /\ UNCHANGED main
  \/ \E c \in CallSlots :
       /\ calls[c].op = "query" /\ calls[c].pc = "asking"
       /\ \E content \in TaggedResponses(calls[c].allTools, 1) :
            QueryFirstResponds(c, TRUE, content) /\ UNCHANGED main
  \/ \E c \in CallSlots :
       /\ calls[c].op = "query" /\ calls[c].pc = "awaitTool"
       /\ \/ QueryToolSettles(c, TRUE, [content |-> "tool output", isError |-> FALSE], "")
             /\ UNCHANGED main
          \/ \E fault \in {"MCP error", "Server not connected"} :
               QueryToolSettles(c, FALSE, [none |-> TRUE], fault) /\ UNCHANGED main
  \/ \E c \in CallSlots :
       /\ calls[c].op = "query" /\ calls[c].pc = "askingFollowUp"
       /\ \/ \E content \in TaggedResponses(calls[c].allTools, calls[c].asks) :
               QueryFollowUpResponds(c, TRUE, content) /\ UNCHANGED main
          \/ QueryFollowUpResponds(c, FALSE, <<>>) /\ UNCHANGED main
SpecAnswer == Init /\ [][NextAnswer]_vars

\* Two callers that query at the same time, each with its own query text.
\* The model answers with at most one block, and its correlation ids are
\* unique across the calls.
ScopedQueries == {"what is the weather", "list the files"}
ScopedResponses(c) ==
  { r \in ModelResponses(calls[c].allTools, 10 * c + calls[c].asks) : Len(r) <= 1 }
NextScoped ==
  \/ ConnectStep({{}}, {}) /\ (\A c \in CallSlots : calls[c].op # "query")
  \/ \E c \in CallSlots, query \in ScopedQueries :
       QueryStart(c, query, Undefined) /\ UNCHANGED main
  \/ \E c \in CallSlots :
       /\ calls[c].op = "query" /\ calls[c].pc = "asking"
       /\ \/ \E content \in ScopedResponses(c) :
               QueryFirstResponds(c, TRUE, content) /\ UNCHANGED main
          \/ QueryFirstResponds(c, FALSE, <<>>) /\ UNCHANGED main
  \/ \E c \in CallSlots :
       /\ calls[c].op = "query" /\ calls[c].pc = "awaitTool"
       /\ \/ QueryToolSettles(c, TRUE, [content |-> "tool output", isError |-> FALSE], "")
             /\ UNCHANGED main
          \/ \E fault \in {"MCP error", "Server not connected"} :
               QueryToolSettles(c, FALSE, [none |-> TRUE], fault) /\ UNCHANGED main
  \/ \E c \in CallSlots :
       /\ calls[c].op = "query" /\ calls[c].pc = "askingFollowUp"
       /\ \/ \E content \in ScopedResponses(c) :
               QueryFollowUpResponds(c, TRUE, content) /\ UNCHANGED main
          \/ QueryFollowUpResponds(c, FALSE, <<>>) /\ UNCHANGED main
SpecScoped == Init /\ [][NextScoped]_vars

\* Queries from a caller that awaits each one, where every model request
\* and every tool call that was sent settles in the end.
QuerySettles(c) ==
  \/ /\ calls[c].op = "query" /\ calls[c].pc = "asking"
     /\ \/ \E content \in ModelResponses(calls[c].allTools, 1) :
             QueryFirstResponds(c, TRUE, content) /\ UNCHANGED main
        \/ QueryFirstResponds(c, FALSE, <<>>) /\ UNCHANGED main
  \/ /\ calls[c].op = "query" /\ calls[c].pc = "awaitTool"
     /\ \/ \E resp \in Responses("tools/call") :
             QueryToolSettles(c, TRUE, resp, "") /\ UNCHANGED main
        \/ \E fault \in Faults \cup {"Server not connected"} :
             QueryToolSettles(c, FALSE, [none |-> TRUE], fault) /\ UNCHANGED main
  \/ /\ calls[c].op = "query" /\ calls[c].pc = "askingFollowUp"
     /\ \/ \E content \in ModelResponses(calls[c].allTools, calls[c].asks) :
             QueryFollowUpResponds(c, TRUE, content) /\ UNCHANGED main
        \/ QueryFollowUpResponds(c, FALSE, <<>>) /\ UNCHANGED main
NextSettling ==
  \/ ConnectStep({{}}, {}) /\ OneCallAtATime'
  \/ \E c \in CallSlots, query \in Queries, preferred \in ServerNames \cup {Undefined} :
       QueryStart(c, query, preferred) /\ OneCallAtATime' /\ UNCHANGED main
  \/ \E c \in CallSlots : QuerySettles(c)
SpecSettling ==
  /\ Init /\ [][NextSettling]_vars
  /\ WF_vars(\E c \in CallSlots : QuerySettles(c))

\* The process from its connects to its exit on a signal; nothing runs
\* after the exit.
Running == main.phase # "exited"
NextShutdown ==
  \/ Running /\ ConnectStep({{}, {"tools"}}, {})
  \/ \E sig \in Signals : CliSignal(sig)
  \/ \E c \in CallSlots : Running /\ ApiSignal(c) /\ UNCHANGED main
  \/ \E c \in CallSlots, raised \in BOOLEAN :
       Running /\ DisconnectAllSettles(c, raised) /\ UNCHANGED main
  \/ ApiExit
SpecShutdown == Init /\ [][NextShutdown]_vars

\* The program from its start until it serves or exits.
NextStartup ==
  \/ MainValidate
  \/ \E c \in CallSlots : MainLaunch(c)
  \/ \E c \in CallSlots, ok \in BOOLEAN : MainConnectSettles(c, ok)
  \/ \E c \in CallSlots, failed \in SUBSET Capabilities : MainDiscoverSettles(c, failed)
  \/ MainConnected
SpecStartup == InitMain /\ [][NextStartup]_vars

\* The API server from its start: the startup connects, then the routes,
\* requested by a caller that awaits each response before its next request.
\* No route connects or disconnects, so the registry is as startup left it.
InitApi == InitMain /\ main.entry = "api"
NextApi ==
  \/ MainValidate
  \/ \E c \in CallSlots : MainLaunch(c)
  \/ \E c \in CallSlots, ok \in BOOLEAN : MainConnectSettles(c, ok)
  \/ \E c \in CallSlots : MainDiscoverSettles(c, {})
  \/ MainConnected
  \/ \E route \in InfoRoutes, name \in ServerNames : RouteInfo(route, name)
  \/ \E c \in CallSlots, op \in {"callTool", "readResource"}, name \in ServerNames :
       \E params \in DispatchParams(op) :
            RouteDispatch(c, op, name, params) /\ OneCallAtATime'
  \/ \E c \in CallSlots, name \in ServerNames : RoutePing(c, name) /\ OneCallAtATime'
  \/ \E c \in CallSlots :
       /\ calls[c].op \in DispatchOps
       /\ \/ \E resp \in Responses(calls[c].request.method) :
               RouteSettles(c, TRUE, resp, "")
          \/ \E fault \in Faults : RouteSettles(c, FALSE, [none |-> TRUE], fault)
  \/ \E c \in CallSlots, query \in Queries \cup {MissingQuery},
          server \in ServerNames \cup {Undefined} :
       RouteQuery(c, query, server) /\ OneCallAtATime'
  \/ \E c \in CallSlots :
       /\ calls[c].op = "query" /\ calls[c].pc = "asking"
       /\ \/ \E content \in ModelResponses(calls[c].allTools, 1) :
               QueryFirstResponds(c, TRUE, content) /\ Answer("query", calls[c].preferred)
          \/ QueryFirstResponds(c, FALSE, <<>>) /\ Answer("query", calls[c].preferred)
  \/ \E c \in CallSlots :
       /\ calls[c].op = "query" /\ calls[c].pc = "awaitTool"
       /\ \/ \E resp \in Responses("tools/call") :
            QueryToolSettles(c, TRUE, resp, "") /\ Answer("query", calls[c].preferred)
          \/ \E fault \in Faults \cup {"Server not connected"} :
               QueryToolSettles(c, FALSE, [none |-> TRUE], fault)
               /\ Answer("query", calls[c].preferred)
  \/ \E c \in CallSlots :
       /\ calls[c].op = "query" /\ calls[c].pc = "askingFollowUp"
       /\ \/ \E content \in ModelResponses(calls[c].allTools, calls[c].asks) :
               QueryFollowUpResponds(c, TRUE, content) /\ Answer("query", calls[c].preferred)
          \/ QueryFollowUpResponds(c, FALSE, <<>>) /\ Answer("query", calls[c].preferred)
SpecApi == InitApi /\ [][NextApi]_vars

\* Callers that keep to one call per identifier at a time: a connect or a
\* disconnect(serverName) starts only when no call on serverName is in flight.
NoCallOn(name) ==
  \A c \in CallSlots : IF calls[c].op = "idle" THEN TRUE ELSE calls[c].name # name
NextDistinct ==
  \/ \E c \in CallSlots, name \in ServerNames :
       NoCallOn(name) /\ ConnectStart(c, name, ServerConfig(name)) /\ UNCHANGED main
  \/ \E c \in CallSlots, ok \in BOOLEAN : ConnectSettles(c, ok) /\ UNCHANGED main
  \/ \E c \in CallSlots, failed \in SUBSET Capabilities :
       DiscoverSettles(c, failed) /\ UNCHANGED main
  \/ \E c \in CallSlots, name \in ServerNames :
       NoCallOn(name) /\ DisconnectStart(c, name) /\ UNCHANGED main
  \/ \E c \in CallSlots, raised \in BOOLEAN :
       DisconnectSettles(c, raised) /\ UNCHANGED main
SpecDistinct == Init /\ [][NextDistinct]_vars

\* --------------------------------------------------------------- claims
HasSeparator(name) == IndexOf(name, Sep) # -1
RegisteredNames == MapKeys(clients) \cup MapKeys(transports) \cup MapKeys(serverInfos)

\* C1: connectToServer with a server identifier that contains the separator
\* '_' fails, and no handle, transport or snapshot is ever registered under
\* such an identifier.
C1_SeparatorIdentifierRejected ==
  /\ \A name \in RegisteredNames : ~HasSeparator(name)
  /\ (last.op = "connect" /\ HasSeparator(last.name)) => last.outcome.kind = "throw"

\* C2 (as stated): a dispatched method addressed to an identifier without a
\* registered client -- callTool, readResource, getPrompt and ping alike --
\* raises the not-connected error and sends nothing on any backend channel.
C2_NotConnectedRaisesForEveryMethod ==
  (last.op \in DispatchOps /\ last.step = "start" /\ ~MapHas(clients, last.name))
    => /\ last.sent = {}
       /\ last.outcome.kind = "throw"
       /\ last.outcome.error = "Server not connected"

\* C2 (amended): for an identifier without a registered client, callTool,
\* readResource and getPrompt raise the not-connected error and ping returns
\* false; in every case nothing is sent on any backend channel and no call
\* stays pending.
C2_NotConnectedFailsFast ==
  (last.op \in DispatchOps /\ last.step = "start" /\ ~MapHas(clients, last.name))
    => /\ last.sent = {}
       /\ calls[last.call] = Idle
       /\ IF last.op = "ping"
          THEN last.outcome.kind = "return" /\ last.outcome.value = FALSE
          ELSE last.outcome.kind = "throw"
               /\ last.outcome.error = "Server not connected"

\* C2 witness: callTool on an identifier that was connected and then
\* disconnected raises.
C2_DisconnectedCallWitness ==
  /\ last.op = "callTool" /\ last.step = "start"
  /\ last.outcome.kind = "throw"
  /\ ~MapHas(clients, last.name)
  /\ \E h \in 1..Len(handles) :
       handles[h].backend = last.name /\ handles[h].status = "closed"

\* C3: the tool list sent to the model holds one entry per (server, tool)
\* pair of the snapshots, its qualified names are pairwise distinct, and a
\* tool invocation naming an entry is dispatched to the server and tool that
\* entry was built from.
C3_QualifiedNamesDistinctAndRouted ==
  /\ (last.op = "query" /\ last.step = "start" /\ last.asked # <<>>)
       => LET tools == last.asked[1].tools
          IN /\ \A i, j \in 1..Len(tools) : i # j => tools[i].name # tools[j].name
             /\ \A k \in 1..Len(serverInfos) :
                  (~Truthy(last.name) \/ serverInfos[k].k = last.name)
                    => \A t \in 1..Len(serverInfos[k].v.tools) :
                         \E i \in 1..Len(tools) :
                           tools[i].description =
                             [tool |-> serverInfos[k].v.tools[t], from |-> serverInfos[k].k]
  /\ (last.op = "query" /\ last.outcome.kind = "pending" /\ last.asked = <<>>)
       => LET q == calls[last.call]
          IN \A i \in 1..Len(q.allTools) :
               q.allTools[i].name = q.response[q.i].name
                 => /\ q.allTools[i].description.from = q.name
                    /\ q.allTools[i].description.tool = q.tool

\* C4: when connectToServer returns successfully, the identifier has a
\* capability snapshot in serverInfos and a registered client.
C4_ConnectedAfterConnect ==
  (last.op = "connect" /\ last.step = "return" /\ last.outcome.kind = "return")
    => MapHas(serverInfos, last.name) /\ MapHas(clients, last.name)

\* C5: whatever subset of the three list calls fails, connectToServer
\* returns successfully and the snapshot it stored holds the empty list for
\* each failed capability and the backend's list for each other one.
C5_DiscoveryFaultTolerant ==
  (last.op = "connect" /\ last.step = "return")
    => /\ last.outcome = Returns("void")
       /\ MapHas(serverInfos, last.name)
       /\ LET info == MapGet(serverInfos, last.name, NoInfo)
              backend == handles[last.client].backend
          IN \A cap \in Capabilities :
               info[cap] = IF cap \in last.failed THEN <<>>
                           ELSE BackendList(cap, backend)

\* C5 witness: tools listed, resources failed: a non-empty tool list and an
\* empty resource list.
C5_ToolsWithoutResourcesWitness ==
  /\ last.op = "connect" /\ last.step = "return"
  /\ last.failed = {"resources"}
  /\ MapGet(serverInfos, last.name, NoInfo).tools # <<>>
  /\ MapGet(serverInfos, last.name, NoInfo).resources = <<>>

\* C6: every client that is open is the one registered under its
\* identifier: a reconnect closes the prior client, so that no un-closed
\* client exists outside the registry.
C6_PriorHandleClosedOnReconnect ==
  \A h \in 1..Len(handles) :
    handles[h].status = "open" => MapGet(clients, handles[h].backend, NoHandle) = h

\* C7: disconnect(id) for an identifier without a registered client (never
\* connected, or already disconnected) returns at once without an error and
\* changes no handle, transport, snapshot or client.
C7_DisconnectIdempotent ==
  [][ (last'.op = "disconnect" /\ last'.step = "start" /\ ~MapHas(clients, last'.name))
        => /\ last'.outcome = Returns("void")
           /\ UNCHANGED <<clients, transports, serverInfos, handles, calls>> ]_vars

\* C7 witness: a second disconnect of an identifier whose client was closed
\* by the first, while another identifier is registered.
C7_SecondDisconnectWitness ==
  /\ last.op = "disconnect" /\ last.step = "start"
  /\ last.outcome.kind = "return"
  /\ \E h \in 1..Len(handles) :
       handles[h].backend = last.name /\ handles[h].status = "closed"
  /\ clients # <<>>

\* C8: once disconnect(id) is over, id has no handle, transport or snapshot
\* and the client it found is closed; once disconnect() is over, the three
\* maps are empty and every client it dropped is closed.
C8_DisconnectClosesAndRemoves ==
  /\ (last.op = "disconnect" /\ last.step = "settle")
       => /\ last.name \notin RegisteredNames
          /\ handles[last.closed].status = "closed"
          /\ last.dropped \in {NoHandle, last.closed}
  /\ (last.op = "disconnectAll" /\ last.outcome.kind # "pending")
       => /\ RegisteredNames = {}
          /\ \A h \in last.dropped : handles[h].status = "closed"

\* C9: without a language-model client no query is ever in flight: every
\* queryWithLLM call raises the configuration error at once, having sent no
\* model request and no tool request, whatever the registry holds.
C9_QueryNeedsConfiguration ==
  ~anthropic
    => /\ \A c \in CallSlots : calls[c].op # "query"
       /\ last.op = "query"
            => /\ last.step = "start"
               /\ last.outcome = Throws("Anthropic API key not configured")
               /\ last.asked = <<>>
               /\ last.sent = {}

\* C9 witness: a query raised while a server with a snapshot is registered.
C9_UnconfiguredQueryWitness ==
  /\ ~anthropic
  /\ last.op = "query" /\ last.outcome.kind = "throw"
  /\ serverInfos # <<>>

\* C10: when queryWithLLM returns its answer, every tool_use block of every
\* model response of the query (the first and each follow-up) was dispatched.
C10_EveryToolUseDispatched ==
  (last.op = "query" /\ last.outcome.kind = "return")
    => last.requested \subseteq last.dispatched

\* C11: once a tool call of a query has raised, the query does not raise:
\* it goes on and returns a non-empty text that holds, for every tool call
\* that raised, the line naming the qualified tool and the error.
C11_ToolFailureBecomesText ==
  /\ (last.op = "query" /\ last.step \in {"tool", "followUp"})
       => last.outcome.kind # "throw"
  /\ (last.op = "query" /\ last.outcome.kind = "return")
       => \A f \in last.failures :
            /\ last.outcome.value # <<>>
            /\ \E k \in 1..Len(last.outcome.value) :
                 last.outcome.value[k] = [t |-> "failed", name |-> f.name, error |-> f.error]

\* C11 witness: a query returns after a tool call raised and another block
\* of the same response was text.
C11_FailedToolWitness ==
  /\ last.op = "query" /\ last.outcome.kind = "return"
  /\ last.failures # {}
  /\ \E k \in 1..Len(last.outcome.value) : last.outcome.value[k].t = "text"

\* C12: the request callTool sends holds the caller's tool name and the
\* caller's argument map, field for field, and nothing else, and it is sent
\* on the client registered under the serverName the caller gave.
C12_CallToolArgumentsUnmodified ==
  (last.op = "callTool" /\ last.step = "start" /\ last.outcome.kind = "pending")
    => /\ DOMAIN last.request = {"method", "name", "arguments"}
       /\ last.request.method = "tools/call"
       /\ last.request.name = last.params.name
       /\ last.request.arguments = last.params.arguments
       /\ last.sent = {MapGet(clients, last.name, NoHandle)}
       /\ handles[MapGet(clients, last.name, NoHandle)].backend = last.name

\* C12 witness: a two-field argument map sent to the second of two
\* registered servers.
C12_TwoFieldArgumentsWitness ==
  /\ last.op = "callTool" /\ last.step = "start" /\ last.outcome.kind = "pending"
  /\ last.params.arguments = [productName |-> "Dynamo", limit |-> 5]
  /\ Len(clients) = 2 /\ clients[2].k = last.name

\* C13: when the session call of callTool, readResource or getPrompt
\* settles, the method ends in exactly one way: with a response it returns
\* the backend's content (callTool), contents (readResource) or whole
\* result (getPrompt) as received; with an error it raises that same error.
C13_ResultOrFailureUnchanged ==
  (last.op \in {"callTool", "readResource", "getPrompt"} /\ last.step = "settle")
    => /\ last.outcome.kind \in {"return", "throw"}
       /\ calls[last.call] = Idle
       /\ last.outcome.kind = "return"
            => /\ "fault" \notin DOMAIN last.response
               /\ last.outcome.value =
                    ( IF last.op = "callTool" THEN last.response.content
                      ELSE IF last.op = "readResource" THEN last.response.contents
                      ELSE last.response )
       /\ last.outcome.kind = "throw"
            => /\ "fault" \in DOMAIN last.response
               /\ last.outcome.error = last.response.fault

\* C13 witness: callTool on a stdio server returns the backend's literal
\* content.
C13_LiteralContentWitness ==
  /\ last.op = "callTool" /\ last.step = "settle"
  /\ handles[last.client].kind = "stdio"
  /\ last.response = [content |-> "tool output", isError |-> FALSE]
  /\ last.outcome = Returns("tool output")

\* C14: what callTool hands back tells a result the backend flagged as an
\* error from a result it did not flag (two responses that differ in
\* isError never give the same outcome), and queryWithLLM adds the
\* executed line only for a result the backend did not flag as an error.
C14_ToolErrorDistinguishable ==
  (last.op = "query" /\ last.step = "tool" /\ "response" \in DOMAIN last)
    => /\ \A r \in Responses("tools/call") :
            DispatchResult("callTool", r) = DispatchResult("callTool", last.response)
              => r.isError = last.response.isError
       /\ ~last.response.isError

\* C15: once no connectToServer call for an identifier is in flight any
\* more, the snapshot the last of them stored was discovered on the client
\* that is registered under the identifier.
C15_ConnectsMutuallyExclusive ==
  ( /\ last.op = "connect" /\ last.step = "return"
    /\ \A c \in CallSlots : calls[c].op = "connect" => calls[c].name # last.name )
    => MapGet(clients, last.name, NoHandle) = last.client

\* C16: with one call per identifier at a time, every step of a connect or
\* a disconnect of one identifier leaves the client, transport, snapshot
\* and Client objects of every other identifier as they were, and leaves
\* its own identifier as the call would running alone: a returned connect
\* has its own client registered with the snapshot discovered on it, a
\* returned disconnect has nothing registered.
C16_DistinctIdentifiersIndependent ==
  [][ last'.op \in {"connect", "disconnect"}
        => /\ \A n \in ServerNames \ {last'.name} :
                /\ MapGet(clients', n, NoHandle) = MapGet(clients, n, NoHandle)
                /\ MapGet(transports', n, NoHandle) = MapGet(transports, n, NoHandle)
                /\ MapGet(serverInfos', n, NoInfo) = MapGet(serverInfos, n, NoInfo)
           /\ \A h \in 1..Len(handles) :
                handles[h].backend # last'.name => handles'[h] = handles[h]
           /\ (last'.op = "connect" /\ last'.step = "return")
                => /\ MapGet(clients', last'.name, NoHandle) = last'.client
                   /\ MapGet(transports', last'.name, NoHandle) = last'.client
                   /\ MapGet(serverInfos', last'.name, NoInfo) =
                        DiscoveredInfo(last'.name, last'.name, last'.failed)
           /\ (last'.op = "disconnect" /\ last'.outcome.kind = "return")
                => last'.name \notin RegisteredNames' ]_vars

\* C16 witness: connectToServer(a) returned while disconnect(a_b) was
\* awaiting its close, and a_b's entries are still the ones it had.
C16_ConnectDuringDisconnectWitness ==
  /\ last.op = "connect" /\ last.step = "return" /\ last.name = A
  /\ \E c \in CallSlots : calls[c].op = "disconnect" /\ calls[c].name = AB
  /\ MapHas(clients, AB) /\ MapHas(serverInfos, AB)

\* C17: no step of callTool, readResource, getPrompt, ping, queryWithLLM,
\* getServerInfo or isConnected changes a client, a transport, a snapshot
\* or a Client object, whether it succeeds or fails; a backend drop leaves
\* the three maps as they are and creates no Client; and a dispatched call
\* on a dropped client raises the fault (ping: returns false).
C17_RegistryChangedOnlyByConnectDisconnect ==
  [][ /\ last'.op \in DispatchOps \cup Accessors \cup {"query"}
           => UNCHANGED <<clients, transports, serverInfos, handles>>
      /\ last'.op = "drop"
           => /\ UNCHANGED <<clients, transports, serverInfos>>
              /\ Len(handles') = Len(handles)
      /\ ( /\ last'.op \in DispatchOps /\ last'.step = "settle"
           /\ handles[last'.client].status = "dropped" )
           => last'.outcome = IF last'.op = "ping" THEN Returns(FALSE)
                              ELSE Throws("Connection closed") ]_vars

\* C17 witness: callTool raised on an identifier whose backend dropped and
\* which is still registered with its snapshot.
C17_DroppedStaysRegisteredWitness ==
  /\ last.op = "callTool" /\ last.step = "settle" /\ last.outcome.kind = "throw"
  /\ handles[last.client].status = "dropped"
  /\ MapGet(clients, last.name, NoHandle) = last.client
  /\ MapHas(serverInfos, last.name)

\* C18: when the process exits on a signal, in the CLI as in the API
\* server, every registered client has been closed (so that the child
\* process of every stdio transport has been terminated).
C18_HandlesClosedBeforeExit ==
  last.op = "exit"
    => \A k \in 1..Len(clients) : handles[clients[k].v].status = "closed"

\* C19 (as stated): when the startup connects are all over, every
\* configured server has one result of its own, every server whose connect
\* succeeded is registered with its snapshot whatever became of the others,
\* no server whose connect failed is, and the program goes on to serve.
C19_StartupProceedsWithAnySubset ==
  last.op = "startup"
    => /\ \A i \in 1..Len(main.config) :
            Cardinality({j \in 1..Len(main.results) :
                           main.results[j].serverName = main.config[i].k}) = 1
       /\ \A j \in 1..Len(main.results) :
            IF main.results[j].success
            THEN /\ MapHas(clients, main.results[j].serverName)
                 /\ MapHas(serverInfos, main.results[j].serverName)
            ELSE main.results[j].serverName \notin RegisteredNames
       /\ main.phase = "serving"

\* C19 (amended): as above, but the program goes on to serve with every
\* non-empty subset of connected servers; with none connected the API
\* server still serves and the CLI exits with status 1.
C19_StartupProceedsUnlessCliAllFailed ==
  last.op = "startup"
    => /\ \A i \in 1..Len(main.config) :
            Cardinality({j \in 1..Len(main.results) :
                           main.results[j].serverName = main.config[i].k}) = 1
       /\ \A j \in 1..Len(main.results) :
            IF main.results[j].success
            THEN /\ MapHas(clients, main.results[j].serverName)
                 /\ MapHas(serverInfos, main.results[j].serverName)
            ELSE main.results[j].serverName \notin RegisteredNames
       /\ IF main.entry = "cli" /\ \A j \in 1..Len(main.results) : ~main.results[j].success
          THEN main.phase = "exited" /\ main.code = 1
          ELSE main.phase = "serving"

\* C19 witness: two servers configured, one connect failed, the other
\* succeeded, and the CLI serves.
C19_PartialStartupWitness ==
  /\ last.op = "startup" /\ main.entry = "cli" /\ main.phase = "serving"
  /\ Len(main.results) = 2
  /\ \E i, j \in 1..2 : main.results[i].success /\ ~main.results[j].success

\* C20: for every configured server whose descriptor is malformed,
\* validateConfig gives exactly one error naming that server and the
\* program exits at the validation gate; and a program whose configuration
\* holds a malformed descriptor never starts a connect.
C20_MalformedDescriptorRejected ==
  LET malformed == {i \in 1..Len(main.config) :
                      SelectTransport(main.config[i].v) = "invalid"}
  IN /\ last.op = "validate"
          => \A i \in malformed :
               /\ Cardinality({j \in 1..Len(last.errors) :
                                 last.errors[j].server = main.config[i].k}) = 1
               /\ main.phase = "exited"
     /\ malformed # {} => main.launched = 0 /\ handles = <<>>

\* C21: every route that addresses a server answers 404 for an identifier
\* without a registered client, so none answers 200 for it; a call of a
\* route that raised is answered 500; and a query request without the
\* query field is answered 400.
C21_RoutesMapStatus ==
  LET r == main.http
  IN /\ (r.route \in ServerRoutes /\ ~MapHas(clients, r.name)) => r.status = 404
     /\ (r.route # "none" /\ "outcome" \in DOMAIN last /\ last.outcome.kind = "throw")
          => r.status = 500
     /\ (last.op = "route" /\ r.route = "query") => r.status = 400

\* C22: the transport of every client built from an sse descriptor was
\* opened with the configured URL and with exactly the configured header
\* map.
C22_SseHeadersReachTransport ==
  \A h \in 1..Len(handles) :
    handles[h].kind = "sse"
      => /\ handles[h].opened.url = SseBlock(handles[h].backend).url
         /\ handles[h].opened.headers = SseBlock(handles[h].backend).headers

\* C23: splitting the qualified name of every tool advertised to the model
\* at its first separator gives back the server identifier and the tool
\* name it was built from, also when the tool name holds the separator; and
\* a tool invocation is dispatched to a (server, tool) pair of the list.
C23_SplitInvertsQualifiedName ==
  /\ (last.op = "query" /\ last.step = "start" /\ last.asked # <<>>)
       => \A i \in 1..Len(last.asked[1].tools) :
            LET entry == last.asked[1].tools[i]
            IN /\ SplitServer(entry.name) = entry.description.from
               /\ SplitTool(entry.name) = entry.description.tool
  /\ (last.op = "query" /\ last.outcome.kind = "pending" /\ last.asked = <<>>)
       => \E k \in 1..Len(calls[last.call].allTools) :
            calls[last.call].allTools[k].description =
              [tool |-> last.tool, from |-> last.server]

\* C24 (as stated): every follow-up request of a query holds a strictly
\* alternating conversation (user query, assistant turn, tool-result turn,
\* assistant turn, ...), and one tool invocation was resolved since the
\* request before it: the tool invocations handled so far are as many as
\* the requests that followed them.
C24_OneInvocationPerModelRequest ==
  (last.op = "query" /\ last.step = "tool" /\ last.asked # <<>>)
    => LET q == calls[last.call]
           msgs == last.asked[1].messages
       IN /\ \A k \in 1..Len(msgs) :
               msgs[k].role = IF k % 2 = 1 THEN "user" ELSE "assistant"
          /\ Cardinality({j \in 1..q.i : q.response[j].type = "tool_use"}) = q.asks - 1

\* C24 (amended): the n-th request of a query holds 2n - 1 turns that
\* alternate strictly: the user query, then for each tool invocation that
\* succeeded an assistant turn and the tool-result turn of that invocation,
\* each invocation once.  So one successful invocation lies between two
\* consecutive requests; failed invocations add no turn and no request.
C24_OneToolResultPerModelRequest ==
  (last.op = "query" /\ last.asked # <<>>)
    => LET msgs == last.asked[1].messages
           n == IF last.step = "start" THEN 1 ELSE calls[last.call].asks
       IN /\ Len(msgs) = 2 * n - 1
          /\ \A k \in 1..Len(msgs) :
               /\ msgs[k].role = IF k % 2 = 1 THEN "user" ELSE "assistant"
               /\ k % 2 = 1 =>
                    /\ Len(msgs[k].content) = 1
                    /\ msgs[k].content[1].type = IF k = 1 THEN "text" ELSE "tool_result"
          /\ \A j, k \in 2..Len(msgs) :
               (j % 2 = 1 /\ k % 2 = 1 /\ j # k)
                 => msgs[j].content[1].tool_use_id # msgs[k].content[1].tool_use_id

\* C24 witness: the third request of a query, after a second tool
\* invocation succeeded: five turns.
C24_SecondFollowUpWitness ==
  /\ last.op = "query" /\ last.step = "tool" /\ last.asked # <<>>
  /\ Len(last.asked[1].messages) = 5

\* C25: when callTool returns to a query, the model is asked again: the
\* request holds the user query as its first turn, as its last turn the
\* tool-result turn with the id of the tool_use block that was executed and
\* the stringified result, before it the assistant turn that holds that
\* block, and the tool list of the first request.
C25_ToolResultCorrelated ==
  (last.op = "query" /\ last.step = "tool" /\ "response" \in DOMAIN last)
    => /\ last.asked # <<>>
       /\ LET q == calls[last.call]
              block == q.response[q.i]
              msgs == last.asked[1].messages
              n == Len(msgs)
          IN /\ q.pc = "askingFollowUp"
             /\ n >= 3
             /\ msgs[1] = [role |-> "user",
                           content |-> <<[type |-> "text", text |-> q.query]>>]
             /\ msgs[n] = [role |-> "user",
                           content |-> <<[type |-> "tool_result",
                                          tool_use_id |-> block.id,
                                          content |-> [json |-> last.response.content]]>>]
             /\ msgs[n - 1].role = "assistant"
             /\ \E k \in 1..Len(msgs[n - 1].content) : msgs[n - 1].content[k] = block
             /\ last.asked[1].tools = q.allTools

\* C25 witness: the second tool_use block of a response succeeded after
\* the first had failed: the only tool-result turn carries the second id.
C25_SecondBlockResultWitness ==
  /\ last.op = "query" /\ last.step = "tool" /\ "response" \in DOMAIN last
  /\ Len(last.asked[1].messages) = 3
  /\ last.asked[1].messages[3].content[1].tool_use_id = ToolUseId(1, 2)
  /\ calls[last.call].response[1].type = "tool_use"

\* C26: when callTool raises to a query, the step that handles it sends no
\* model request, leaves the conversation and the number of requests as
\* they were, appends the failed line to the output, and goes on with the
\* next block of the response: the query is then past the failed block, at
\* its next tool call or returned.
C26_FailedToolAddsNoTurn ==
  [][ (last'.op = "query" /\ last'.step = "tool" /\ "response" \notin DOMAIN last')
        => LET c == last'.call
               q == calls[c]
               name == q.response[q.i].name
           IN /\ last'.asked = <<>>
              /\ \E f \in Faults \cup {"Server not connected"} :
                   LET failed == [t |-> "failed", name |-> name, error |-> f]
                   IN IF calls'[c] = Idle
                      THEN /\ last'.outcome.kind = "return"
                           /\ last'.asks = q.asks
                           /\ [name |-> name, error |-> f] \in last'.failures
                           /\ \E k \in 1..Len(last'.outcome.value) :
                                last'.outcome.value[k] = failed
                      ELSE /\ calls'[c].followUpMessages = q.followUpMessages
                           /\ calls'[c].asks = q.asks
                           /\ calls'[c].i > q.i
                           /\ calls'[c].pc = "awaitTool"
                           /\ SubSeq(calls'[c].result, 1, Len(q.result) + 3)
                                = q.result \o <<Newline, failed, Newline>> ]_vars

\* C26 witness: the first tool call of a response raised and the query
\* went on to dispatch the second block, with the conversation still the
\* user query alone.
C26_ContinuesAfterFailureWitness ==
  /\ last.op = "query" /\ last.step = "tool" /\ "response" \notin DOMAIN last
  /\ last.outcome.kind = "pending"
  /\ calls[last.call].i = 2 /\ calls[last.call].failures # {}
  /\ Len(calls[last.call].followUpMessages) = 1

\* The text pieces of an answer, in their order.
AnswerTexts(value) == SelectSeq(value, LAMBDA piece : piece.t = "text")

C28_ConversationScopedToCall ==
  (last.op = "query" /\ last.asked # <<>>)
    => LET q == calls[last.call]
           msgs == last.asked[1].messages
       IN /\ msgs[1] = [role |-> "user",
                        content |-> <<[type |-> "text", text |-> q.query]>>]
          /\ last.step = "start" => Len(msgs) = 1
          /\ \A k \in 2..Len(msgs) : \A b \in 1..Len(msgs[k].content) :
               LET block == msgs[k].content[b]
               IN IF msgs[k].role = "assistant"
                  THEN \E j \in 1..Len(q.response) : q.response[j] = block
                  ELSE /\ block.type = "tool_result"
                       /\ block.tool_use_id \in ToolUseIds(q.response)

\* C28 witness: a call sends its follow-up request while another call with
\* another query has a conversation of three turns of its own.
C28_TwoConversationsWitness ==
  /\ last.op = "query" /\ last.step = "tool" /\ last.asked # <<>>
  /\ \E d \in CallSlots \ {last.call} :
       /\ calls[d].op = "query"
       /\ calls[d].query # calls[last.call].query
       /\ Len(calls[d].followUpMessages) = 3

\* C29: in every state, whatever connects and disconnects are in flight,
\* every identifier with a snapshot has a registered client, and the
\* identifiers with a client are the identifiers with a transport.
C29_SnapshotsOnlyOfConnected ==
  /\ MapKeys(serverInfos) \subseteq MapKeys(clients)
  /\ MapKeys(clients) = MapKeys(transports)

\* C30: when disconnect() returns, every client its clear() removed from
\* the registry has been closed, whatever connects completed while it was
\* awaiting a close.
C30_NoHandleDroppedUnclosed ==
  [][ (last'.op = "disconnectAll" /\ last'.outcome.kind = "return")
        => \A k \in 1..Len(clients) :
             MapGet(clients', clients[k].k, NoHandle) # clients[k].v
               => handles'[clients[k].v].status = "closed" ]_vars

\* C31: a connectToServer call that ends before its discovery (the
\* descriptor is invalid, or client.connect raised) raises its error to the
\* caller and leaves every client, transport and snapshot of the registry,
\* and every Client object but its own, as they were.
C31_FailedConnectLeavesRegistry ==
  [][ (last'.op = "connect" /\ last'.step # "return" /\ calls'[last'.call] = Idle)
        => /\ last'.outcome.kind = "throw"
           /\ last'.outcome.error =
                IF last'.step = "start" THEN "Invalid transport configuration"
                ELSE "Connection failed"
           /\ UNCHANGED <<clients, transports, serverInfos>>
           /\ IF last'.step = "start" THEN UNCHANGED handles
              ELSE /\ Len(handles') = Len(handles)
                   /\ \A h \in 1..Len(handles) :
                        h # calls[last'.call].client => handles'[h] = handles[h] ]_vars

\* C31 witness: a reconnect of a registered identifier raised in
\* client.connect, and the identifier still has its client and snapshot.
C31_FailedReconnectWitness ==
  /\ last.op = "connect" /\ last.step = "registered" /\ last.outcome.kind = "throw"
  /\ MapHas(clients, last.name) /\ MapHas(serverInfos, last.name)

\* C32: when disconnect() with no identifier is over, whether it returned
\* or a close raised, the three maps are empty, so that no closed client is
\* still registered.
C32_DisconnectAllEmptiesOnEveryPath ==
  (last.op = "disconnectAll" /\ last.outcome.kind \in {"return", "throw"})
    => /\ clients = <<>> /\ transports = <<>> /\ serverInfos = <<>>
       /\ \A k \in 1..Len(clients) : handles[clients[k].v].status # "closed"

\* C33: for a query with a preferred server, every tool advertised to the
\* model was built from the preferred server's snapshot, and every tool
\* call of the query is addressed to the preferred server.
C33_PreferredServerOnly ==
  /\ (last.op = "query" /\ last.step = "start" /\ last.asked # <<>> /\ Truthy(last.name))
       => \A i \in 1..Len(last.asked[1].tools) :
            last.asked[1].tools[i].description.from = last.name
  /\ (last.op = "query" /\ last.outcome.kind = "pending" /\ last.asked = <<>>
        /\ Truthy(last.name))
       => /\ last.server = last.name
          /\ last.sent \subseteq {MapGet(clients, last.name, NoHandle)}

\* C34: a query is bounded and ends.  With k the number of tool_use blocks
\* of its first model response, it makes at most k tool dispatches and at
\* most k + 1 model requests, and when every request it sent settles, it
\* returns or raises.
C34_QueryBoundedAndTerminates ==
  /\ [](\A c \in CallSlots :
          (calls[c].op = "query" /\ calls[c].pc # "asking")
            => LET k == Cardinality(ToolUseIds(calls[c].response))
               IN /\ Cardinality(calls[c].dispatched) <= k
                  /\ calls[c].asks <= k + 1)
  /\ [](last.op = "query" /\ last.step # "start" /\ last.outcome.kind = "return"
          => LET k == Cardinality({id \in last.requested : id[2] = 1})
             IN /\ Cardinality(last.dispatched) <= k
                /\ last.asks <= k + 1)
  /\ (\E c \in CallSlots : calls[c].op = "query")
       ~> (\A c \in CallSlots : calls[c].op # "query")
C34_BoundAttainedWitness ==
  /\ last.op = "query" /\ last.step = "followUp" /\ last.outcome.kind = "return"
  /\ Cardinality(last.dispatched) = 2 /\ last.asks = 3
  /\ Cardinality({id \in last.requested : id[2] = 1}) = 2

\* C35: a failed line of the answer names a tool whose dispatched call
\* failed, with the error of that call: while a query runs and when it
\* returns, each failed piece of its output is one of its recorded tool
\* failures, so a follow-up request that fails after a successful tool
\* call reports no tool as failed.
C35_FailedLineOnlyForFailedTool ==
  /\ \A c \in CallSlots :
       (calls[c].op = "query")
         => \A k \in 1..Len(calls[c].result) :
              calls[c].result[k].t = "failed"
                => [name |-> calls[c].result[k].name,
                    error |-> calls[c].result[k].error] \in calls[c].failures
  /\ (last.op = "query" /\ last.step # "start" /\ last.outcome.kind = "return")
       => \A k \in 1..Len(last.outcome.value) :
            last.outcome.value[k].t = "failed"
              => [name |-> last.outcome.value[k].name,
                  error |-> last.outcome.value[k].error] \in last.failures

\* C36: in every conversation sent to the model, each tool_use block of an
\* assistant turn is answered in the next turn by a tool_result block with
\* the same id, and no two assistant turns of the conversation are the
\* same turn.
C36_ToolUseAnsweredInNextTurn ==
  (last.op = "query" /\ last.asked # <<>>)
    => LET messages == last.asked[1].messages
           assistants == {i \in 1..Len(messages) : messages[i].role = "assistant"}
       IN /\ \A i \in assistants :
               \A b \in 1..Len(messages[i].content) :
                 messages[i].content[b].type = "tool_use"
                   => /\ i < Len(messages)
                      /\ messages[i + 1].role = "user"
                      /\ \E r \in 1..Len(messages[i + 1].content) :
                           /\ messages[i + 1].content[r].type = "tool_result"
                           /\ messages[i + 1].content[r].tool_use_id
                                = messages[i].content[b].id
          /\ \A i, j \in assistants : i # j => messages[i] # messages[j]

\* C37: ping never raises.  For an identifier with no registered client it
\* returns false at once and sends nothing; otherwise it sends the ping
\* request on the registered client, and returns true when the backend
\* answered and false when the request failed.
C37_PingNeverRaises ==
  (last.op = "ping")
    => /\ last.outcome.kind # "throw"
       /\ last.step = "start"
            => IF MapHas(clients, last.name)
               THEN /\ last.outcome = Pending
                    /\ last.sent = {MapGet(clients, last.name, NoHandle)}
                    /\ last.request = [method |-> "ping"]
               ELSE /\ last.outcome = Returns(FALSE)
                    /\ last.sent = {}
       /\ last.step = "settle"
            => /\ last.outcome.kind = "return"
               /\ last.outcome.value \in BOOLEAN
               /\ last.outcome.value <=> "pong" \in DOMAIN last.response
C37_FailedProbeWitness ==
  /\ last.op = "ping" /\ last.step = "settle"
  /\ last.outcome = Returns(FALSE)
  /\ "fault" \in DOMAIN last.response
  /\ MapHas(clients, last.name)
====
